---- MODULE Spec2Model ----
(***************************************************************************)
(* Model of the star-registry blockchain: class Block (block.js) and class *)
(* Blockchain (blockchain.js).                                             *)
(*                                                                         *)
(* A JavaScript string is a sequence of character codes.  null and         *)
(* undefined are the empty tuple.  Every `await` hands the rest of the     *)
(* async function to the microtask queue, which runs first-in first-out.   *)
(***************************************************************************)
EXTENDS Integers, Sequences, FiniteSets, TLC

(* ------------------------------------------------------------------ *)
(* Bounds of the model                                                 *)
(* ------------------------------------------------------------------ *)
MaxCalls == 2        \* asynchronous calls started besides the constructor's
MaxTicks == 1        \* seconds the wall clock may advance

(* ------------------------------------------------------------------ *)
(* Strings                                                             *)
(* ------------------------------------------------------------------ *)
Null == << >>

StrStar == <<115, 116, 97, 114>>                                   \* star
StrOwner == <<111, 119, 110, 101, 114>>                            \* owner
StrData == <<100, 97, 116, 97>>                                    \* data
StrGenesis == <<71, 101, 110, 101, 115, 105, 115, 32, 66, 108, 111, 99, 107>>
StrRegistry == <<115, 116, 97, 114, 82, 101, 103, 105, 115, 116, 114, 121>>
StrUndefined == <<117, 110, 100, 101, 102, 105, 110, 101, 100>>    \* undefined

RECURSIVE Concat(_)
Concat(ss) == IF ss = << >> THEN << >> ELSE Head(ss) \o Concat(Tail(ss))

\* Number.prototype.toString for a non-negative integer.
RECURSIVE NumToString(_)
NumToString(n) ==
    IF n < 10 THEN <<48 + n>> ELSE Append(NumToString(n \div 10), 48 + (n % 10))

\* String.prototype.slice(0, -k)
SliceOffEnd(s, k) == IF Len(s) <= k THEN << >> ELSE SubSeq(s, 1, Len(s) - k)

\* String.prototype.split with a one-character separator.
RECURSIVE SplitFrom(_, _, _, _)
SplitFrom(s, sep, i, cur) ==
    IF i > Len(s) THEN <<cur>>
    ELSE IF s[i] = sep THEN <<cur>> \o SplitFrom(s, sep, i + 1, << >>)
    ELSE SplitFrom(s, sep, i + 1, Append(cur, s[i]))
Split(s, sep) == SplitFrom(s, sep, 1, << >>)

\* Array index read: undefined when out of range (index is 0-based in JS).
At(arr, i) == IF i + 1 \in 1..Len(arr) THEN arr[i + 1] ELSE StrUndefined

\* A JavaScript number that may be NaN.
NaN == [nan |-> TRUE, val |-> 0]
Num(n) == [nan |-> FALSE, val |-> n]

IsWhite(c) == c \in {9, 10, 11, 12, 13, 32}
IsDigit(c) == c \in 48..57

RECURSIVE SkipWhite(_)
SkipWhite(s) == IF s # << >> /\ IsWhite(Head(s)) THEN SkipWhite(Tail(s)) ELSE s

RECURSIVE DigitsValue(_, _)
DigitsValue(s, acc) ==
    IF s # << >> /\ IsDigit(Head(s))
    THEN DigitsValue(Tail(s), 10 * acc + (Head(s) - 48))
    ELSE acc

\* parseInt(string): leading white space, an optional sign, then the longest
\* run of decimal digits; NaN when there is no digit.
ParseInt(str) ==
    LET s == SkipWhite(str)
        neg == s # << >> /\ Head(s) = 45
        t == IF s # << >> /\ Head(s) \in {43, 45} THEN Tail(s) ELSE s
    IN IF t = << >> \/ ~IsDigit(Head(t)) THEN NaN
       ELSE Num(IF neg THEN 0 - DigitsValue(t, 0) ELSE DigitsValue(t, 0))

NumSub(a, b) == IF a.nan \/ b.nan THEN NaN ELSE Num(a.val - b.val)
NumGt(a, n) == ~a.nan /\ a.val > n

(* ------------------------------------------------------------------ *)
(* Codec: JSON.stringify, Buffer.from(..).toString('hex'), hex2ascii,  *)
(* JSON.parse.  A JavaScript object with string members is a sequence  *)
(* of <<key, value>> pairs in insertion order.                         *)
(* ------------------------------------------------------------------ *)
RECURSIVE JsonEscape(_)
JsonEscape(s) ==
    IF s = << >> THEN << >>
    ELSE IF Head(s) \in {34, 92} THEN <<92, Head(s)>> \o JsonEscape(Tail(s))
    ELSE <<Head(s)>> \o JsonEscape(Tail(s))

JsonString(s) == <<34>> \o JsonEscape(s) \o <<34>>

RECURSIVE JsonMembers(_)
JsonMembers(obj) ==
    IF obj = << >> THEN << >>
    ELSE JsonString(Head(obj)[1]) \o <<58>> \o JsonString(Head(obj)[2])
         \o (IF Len(obj) > 1 THEN <<44>> ELSE << >>) \o JsonMembers(Tail(obj))

\* JSON.stringify of an object whose members are strings.
JsonStringify(obj) == <<123>> \o JsonMembers(obj) \o <<125>>

\* UTF-8 bytes of one character code (Buffer.from(string)).
Utf8Char(c) ==
    IF c < 128 THEN <<c>>
    ELSE IF c < 2048 THEN <<192 + (c \div 64), 128 + (c % 64)>>
    ELSE <<224 + (c \div 4096), 128 + ((c \div 64) % 64), 128 + (c % 64)>>

RECURSIVE Utf8(_)
Utf8(s) == IF s = << >> THEN << >> ELSE Utf8Char(Head(s)) \o Utf8(Tail(s))

HexDigit(n) == IF n < 10 THEN 48 + n ELSE 87 + n

\* buffer.toString('hex')
RECURSIVE ToHex(_)
ToHex(bytes) ==
    IF bytes = << >> THEN << >>
    ELSE <<HexDigit(Head(bytes) \div 16), HexDigit(Head(bytes) % 16)>> \o ToHex(Tail(bytes))

\* Block constructor: this.body = Buffer.from(JSON.stringify(data)).toString('hex')
EncodeBody(data) == ToHex(Utf8(JsonStringify(data)))

IsHexDigit(c) == c \in (48..57) \cup (97..102) \cup (65..70)
HexValue(c) == IF c \in 48..57 THEN c - 48 ELSE IF c \in 97..102 THEN c - 87 ELSE c - 55

\* parseInt(pair, 16) of a substring of at most two characters.
ParseHexPair(p) ==
    IF p = << >> \/ ~IsHexDigit(p[1]) THEN NaN
    ELSE IF Len(p) > 1 /\ IsHexDigit(p[2]) THEN Num(16 * HexValue(p[1]) + HexValue(p[2]))
    ELSE Num(HexValue(p[1]))

\* hex2ascii: one character per pair of hex digits (String.fromCharCode of
\* the byte), pairs that do not parse or that are zero being dropped.
RECURSIVE Hex2Ascii(_)
Hex2Ascii(hex) ==
    IF hex = << >> THEN << >>
    ELSE LET pair == SubSeq(hex, 1, IF Len(hex) >= 2 THEN 2 ELSE 1)
             rest == SubSeq(hex, Len(pair) + 1, Len(hex))
             code == ParseHexPair(pair)
         IN (IF ~code.nan /\ code.val # 0 THEN <<code.val>> ELSE << >>) \o Hex2Ascii(rest)

\* JSON.parse of a string literal starting at s[i]: [ok, val, next].
RECURSIVE JsonReadChars(_, _, _)
JsonReadChars(s, i, acc) ==
    IF i > Len(s) THEN [ok |-> FALSE, val |-> << >>, next |-> i]
    ELSE IF s[i] = 34 THEN [ok |-> TRUE, val |-> acc, next |-> i + 1]
    ELSE IF s[i] = 92
         THEN IF i + 1 <= Len(s) /\ s[i + 1] \in {34, 92}
              THEN JsonReadChars(s, i + 2, Append(acc, s[i + 1]))
              ELSE [ok |-> FALSE, val |-> << >>, next |-> i]
    ELSE JsonReadChars(s, i + 1, Append(acc, s[i]))

JsonReadString(s, i) ==
    IF i <= Len(s) /\ s[i] = 34 THEN JsonReadChars(s, i + 1, << >>)
    ELSE [ok |-> FALSE, val |-> << >>, next |-> i]

\* Replace the member `k` of an object, or add it at the end (a repeated key
\* keeps its first position and its last value, as in JSON.parse).
SetMember(obj, k, v) ==
    IF \E j \in 1..Len(obj) : obj[j][1] = k
    THEN [j \in 1..Len(obj) |-> IF obj[j][1] = k THEN <<k, v>> ELSE obj[j]]
    ELSE Append(obj, <<k, v>>)

RECURSIVE JsonReadMembers(_, _, _)
JsonReadMembers(s, i, acc) ==
    LET k == JsonReadString(s, i)
        v == JsonReadString(s, k.next + 1)
    IN IF ~k.ok \/ k.next > Len(s) \/ s[k.next] # 58 \/ ~v.ok \/ v.next > Len(s)
       THEN [ok |-> FALSE, val |-> << >>]
       ELSE IF s[v.next] = 44 THEN JsonReadMembers(s, v.next + 1, SetMember(acc, k.val, v.val))
       ELSE IF s[v.next] = 125 /\ v.next = Len(s)
            THEN [ok |-> TRUE, val |-> SetMember(acc, k.val, v.val)]
       ELSE [ok |-> FALSE, val |-> << >>]

\* JSON.parse of the text of an object whose members are strings:
\* [ok, val]; ok is FALSE where JSON.parse throws a SyntaxError.
JsonParse(s) ==
    IF Len(s) < 2 \/ s[1] # 123 THEN [ok |-> FALSE, val |-> << >>]
    ELSE IF s = <<123, 125>> THEN [ok |-> TRUE, val |-> << >>]
    ELSE JsonReadMembers(s, 2, << >>)

\* Property read obj.key: undefined (Null) when the object has no such member.
Member(obj, k) ==
    IF \E j \in 1..Len(obj) : obj[j][1] = k
    THEN obj[CHOOSE j \in 1..Len(obj) : obj[j][1] = k][2]
    ELSE Null

(* ------------------------------------------------------------------ *)
(* External libraries                                                  *)
(* ------------------------------------------------------------------ *)
\* crypto-js SHA256(text).toString(): an injective digest of the text.
SHA256(text) == <<"sha256", text>>

\* JSON.stringify(block): the text of an object with the block's five
\* members in declaration order; JSON.stringify(string): a quoted string.
\* The two texts never coincide (one starts with a brace, one with a quote).
JsonStringifyBlock(b) == <<"object", b.hash, b.height, b.body, b.time, b.previousBlockHash>>
JsonStringifyString(str) == <<"string", str>>

\* A signature is well formed (made by `signer` over `msg`) or malformed.
Sign(signer, msg) == [wellFormed |-> TRUE, signer |-> signer, msg |-> msg]
Malformed == [wellFormed |-> FALSE, signer |-> Null, msg |-> Null]

\* bitcoinMessage.verify(message, address, signature): throws on a
\* malformed signature, else tells whether `address` signed `message`.
Verify(message, address, signature) ==
    IF ~signature.wellFormed THEN "throw"
    ELSE IF signature.signer = address /\ signature.msg = message THEN "true"
    ELSE "false"

(* ------------------------------------------------------------------ *)
(* class Block                                                         *)
(* ------------------------------------------------------------------ *)
NoBlock == [hash |-> Null, height |-> 0, body |-> Null, time |-> Null,
            previousBlockHash |-> Null]

\* new Block(data)
NewBlock(data) == [hash |-> Null, height |-> 0, body |-> EncodeBody(data),
                   time |-> Null, previousBlockHash |-> Null]

\* Block.validate(): compares the stored hash with the digest of the body.
BlockValidate(b) == b.hash = SHA256(JsonStringifyString(b.body))

\* A getBData without the test of the height: it resolves for every block.
GetBDataOfAnyHeight(b) ==
    LET data == JsonParse(Hex2Ascii(b.body))
    IN IF data.ok THEN [ok |-> TRUE, val |-> data.val]
       ELSE [ok |-> FALSE, val |-> << >>]

\* Block.getBData(): [ok, val]; ok is FALSE when the promise rejects (height
\* 0) and also when JSON.parse throws inside the executor, which no chain
\* built by _addBlock makes happen.
GetBData(b) ==
    LET data == JsonParse(Hex2Ascii(b.body))
    IN IF data.ok /\ b.height # 0 THEN [ok |-> TRUE, val |-> data.val]
       ELSE [ok |-> FALSE, val |-> << >>]

(* ------------------------------------------------------------------ *)
(* Inputs                                                              *)
(* ------------------------------------------------------------------ *)
Window == 300
ClockStart == 1000

Addresses == {<<97>>, <<98>>}                 \* wallet addresses "a", "b"
Stars == {<<86>>, <<233>>}                    \* star names "V", "e-acute"

GenesisData == << <<StrData, StrGenesis>> >>
StarData(star, address) == << <<StrStar, star>>, <<StrOwner, address>> >>

\* requestMessageOwnershipVerification(address) at time t (seconds).
Challenge(address, t) == Concat(<<address, <<58>>, NumToString(t), <<58>>, StrRegistry>>)

IssueTimes == {ClockStart - Window - 1, ClockStart - Window}

\* Messages a caller may hand in for an address: challenges issued earlier,
\* a message with no second field, and one whose second field is no number.
MessagesFor(a) ==
    {Challenge(a, t) : t \in IssueTimes}
      \cup {a, Concat(<<a, <<58, 120, 58>>, StrRegistry>>)}

SignaturesFor(m) == {Sign(s, m) : s \in Addresses} \cup {Malformed}

\* new Date().getTime().toString().slice(0,-3) with the clock in seconds.
TimeStamp(clk) == SliceOffEnd(NumToString(clk * 1000), 3)

(* ------------------------------------------------------------------ *)
(* class Blockchain: state                                             *)
(* ------------------------------------------------------------------ *)
VARIABLES chain,    \* this.chain
          height,   \* this.height
          clock,    \* wall clock, in seconds
          calls,    \* the initializeChain and submitStar calls made so far
          queue,    \* microtask queue: ids of the calls waiting at an await
          ret       \* what the operation that has just settled at once handed back,
                    \* until its caller has taken it

vars == <<chain, height, clock, calls, queue, ret>>

\* A getBlockByHeight that reads the chain by index (`self.chain[height]`).
GetBlockByIndex(ch, h) ==
    IF h + 1 \in 1..Len(ch) THEN [found |-> TRUE, block |-> ch[h + 1]]
    ELSE [found |-> FALSE, block |-> NoBlock]

\* getBlockByHeight(height): the first block with that height, or null.
GetBlockByHeight(ch, h) ==
    LET hits == SelectSeq(ch, LAMBDA p : p.height = h)
    IN IF hits # << >> THEN [found |-> TRUE, block |-> hits[1]]
       ELSE [found |-> FALSE, block |-> NoBlock]

\* getBlockByHash(hash): the first block with that hash, or null.
GetBlockByHash(ch, d) ==
    LET hits == SelectSeq(ch, LAMBDA p : p.hash = d)
    IN IF hits # << >> THEN [found |-> TRUE, block |-> hits[1]]
       ELSE [found |-> FALSE, block |-> NoBlock]

PreviousHashError(last, h) == [kind |-> "previousHash", last |-> last, height |-> h]
NotValidError(h) == [kind |-> "notValid", last |-> Null, height |-> h]

\* A validateChain whose guard is `block.height !== 0`: every block above the
\* first is checked.
CheckedAboveOrigin(b) == b.height # 0

\* The guard `!block.height === 0` of validateChain: `!` binds tighter than
\* `===`, so a boolean is strictly compared with the number 0.
JsStrictEqualsBooleanNumber(bool, n) == FALSE   \* operands of different types
CheckedByValidateChain(b) == JsStrictEqualsBooleanNumber(b.height = 0, 0)

\* validateChain(): the loop over this.chain, lastBlockHash carried along.
RECURSIVE ValidateFrom(_, _, _)
ValidateFrom(ch, i, last) ==
    IF i > Len(ch) THEN << >>
    ELSE LET b == ch[i]
             found == IF CheckedByValidateChain(b)
                      THEN (IF b.previousBlockHash # last
                            THEN <<PreviousHashError(last, b.height)>> ELSE << >>)
                           \o (IF ~BlockValidate(b)
                               THEN <<NotValidError(b.height)>> ELSE << >>)
                      ELSE << >>
         IN found \o ValidateFrom(ch, i + 1, b.hash)

ValidateChain(ch) == ValidateFrom(ch, 1, Null)

\* The filter callback of getStarsByWalletAddress is an async function: it
\* returns a promise, which is truthy whatever `s.owner == address` is.
KeptByFilter(entry, address) == TRUE

\* getStarsByWalletAddress(address): [ok, val]; the promise rejects when
\* getBData rejects for one of the blocks after the first.
GetStarsByWalletAddress(ch, address) ==
    LET rest == SubSeq(ch, 2, Len(ch))
        allStars == [i \in 1..Len(rest) |-> GetBData(rest[i])]
        kept == SelectSeq(allStars, LAMBDA s : KeptByFilter(s, address))
    IN IF \E i \in 1..Len(kept) : ~kept[i].ok THEN [ok |-> FALSE, val |-> << >>]
       ELSE [ok |-> TRUE,
             val |-> [i \in 1..Len(kept) |->
                        [owner |-> Member(kept[i].val, StrOwner),
                         star |-> Member(kept[i].val, StrStar)]]]

\* A submitStar whose try has no catch around verify: a throw is not turned
\* into a reject and the call goes on.
SubmitBranchThrowIgnored(elapsedSeconds, verdict) ==
    IF verdict = "false" THEN "invalid" ELSE "add"

\* submitStar, lines 132-149: which branch is taken.
SubmitBranch(elapsedSeconds, verdict) ==
    IF FALSE /\ NumGt(elapsedSeconds, Window) THEN "expired"
    ELSE IF verdict = "throw" THEN "threw"
    ELSE IF verdict = "false" THEN "invalid"
    ELSE "add"

\* An _addBlock that links only above height 1 (`chainHeight > 0`).
SealFieldsLinkAboveOne(block, chainHeight, previousBlock, clk) ==
    [block EXCEPT !.previousBlockHash = IF chainHeight > 0 THEN previousBlock.block.hash
                                        ELSE block.previousBlockHash,
                  !.height = chainHeight + 1,
                  !.time = TimeStamp(clk)]

\* _addBlock, lines 75-82: the block with its link, height, time set.
SealFields(block, chainHeight, previousBlock, clk) ==
    [block EXCEPT !.previousBlockHash = IF chainHeight > -1 THEN previousBlock.block.hash
                                        ELSE block.previousBlockHash,
                  !.height = chainHeight + 1,
                  !.time = TimeStamp(clk)]

\* The frame of a call in flight: the locals that are read after the first
\* await, and the state of the promises of _addBlock and of the call.
\* `verdict` keeps what bitcoinMessage.verify answered when the call began
\* ("none" for initializeChain, which does not verify).
NewCall(op, verdict, block) ==
    [op |-> op, pc |-> "callAdd", verdict |-> verdict, block |-> block, chainHeight |-> -1,
     previousBlock |-> [found |-> FALSE, block |-> NoBlock],
     newHash |-> Null, errors |-> << >>, added |-> "pending", outcome |-> "pending"]

\* The frame once the call has settled: its outcome and, when it resolved,
\* the block it resolved with.
DoneCall(c) ==
    [NewCall(c.op, c.verdict, IF c.added = "resolved" THEN c.block ELSE NoBlock)
       EXCEPT !.pc = "done", !.added = c.added, !.outcome = c.added]

\* What the caller of the operation that has just settled at once was handed.
NoRet == [op |-> "none", arg |-> Null, val |-> Null]
Rejected(why) == [ok |-> FALSE, val |-> why]

\* The state when `new Blockchain()` returns: initializeChain has run up to
\* its first await (lines 25-29, 36-39).
Init ==
    /\ chain = << >>
    /\ height = -1
    /\ clock = ClockStart
    /\ calls = <<NewCall("init", "none", NewBlock(GenesisData))>>
    /\ queue = <<1>>
    /\ ret = NoRet

(* ------------------------------------------------------------------ *)
(* Operations.  A call started by a caller runs synchronously up to   *)
(* its first await; each later action is one turn of the microtask    *)
(* queue, which resumes the call at the head of the queue.            *)
(* ------------------------------------------------------------------ *)
\* No value is waiting to be taken by a caller.
Idle == ret.op = "none"
\* An await whose continuation is never queued: the call is not resumed.
RequeueLost(i) == Tail(queue)

Started == Len(calls)
Running(i) == queue # << >> /\ Head(queue) = i
Requeue(i) == Append(Tail(queue), i)
Settled == \A i \in 1..Len(calls) : calls[i].pc = "done"

\* initializeChain() called again by a caller (lines 36-45): up to its first
\* await, or to its end when the height is not -1.
InitializeChain ==
    /\ Idle
    /\ IF height = -1
       THEN /\ Started < 1 + MaxCalls
            /\ calls' = Append(calls, NewCall("init", "none", NewBlock(GenesisData)))
            /\ queue' = Append(queue, Started + 1)
            /\ ret' = NoRet
       ELSE /\ ret' = [op |-> "initializeChain", arg |-> Null, val |-> Null]
            /\ UNCHANGED <<calls, queue>>
    /\ UNCHANGED <<chain, height, clock>>

\* elapsedSeconds of submitStar (lines 132-134) for a message, at a time.
ElapsedSeconds(m, clk) ==
    LET messageTime == ParseInt(At(Split(m, 58), 1))
        currentTime == ParseInt(TimeStamp(clk))
    IN NumSub(currentTime, messageTime)

\* submitStar(address, message, signature, star), lines 128-146: up to the
\* first await, or to the reject, which settles the call at once.
SubmitStar(a, m, sig, star) ==
    LET verdict == Verify(m, a, sig)
        branch == SubmitBranch(ElapsedSeconds(m, clock), verdict)
    IN /\ Idle
       /\ IF branch = "add"
          THEN /\ Started < 1 + MaxCalls
               /\ calls' = Append(calls,
                              NewCall("submit", verdict, NewBlock(StarData(star, a))))
               /\ queue' = Append(queue, Started + 1)
               /\ ret' = NoRet
          ELSE /\ ret' = [op |-> "submitStar", arg |-> Null, val |-> Rejected(branch)]
               /\ UNCHANGED <<calls, queue>>
       /\ UNCHANGED <<chain, height, clock>>

\* _addBlock is called (line 40 or 148); it reads the height: line 72.
AddBlockReadHeight(i) ==
    /\ Idle /\ Running(i) /\ calls[i].pc = "callAdd"
    /\ calls' = [calls EXCEPT ![i].chainHeight = height, ![i].pc = "getPrevious"]
    /\ queue' = Requeue(i)
    /\ ret' = NoRet
    /\ UNCHANGED <<chain, height, clock>>

\* line 73
AddBlockReadPrevious(i) ==
    /\ Idle /\ Running(i) /\ calls[i].pc = "getPrevious"
    /\ calls' = [calls EXCEPT ![i].previousBlock = GetBlockByHeight(chain, calls[i].chainHeight),
                              ![i].pc = "seal"]
    /\ queue' = Requeue(i)
    /\ ret' = NoRet
    /\ UNCHANGED <<chain, height, clock>>

\* lines 75-82: the fields are set and the digest is computed; reading
\* previousBlock.hash of null throws, which the catch turns into a reject.
AddBlockSeal(i) ==
    LET c == calls[i]
        throws == c.chainHeight > -1 /\ ~c.previousBlock.found
        sealed == SealFields(c.block, c.chainHeight, c.previousBlock, clock)
    IN /\ Idle /\ Running(i) /\ c.pc = "seal"
       /\ calls' = IF throws
                   THEN [calls EXCEPT ![i].added = "rejected", ![i].pc = "return"]
                   ELSE [calls EXCEPT ![i].block = sealed,
                                      ![i].newHash = SHA256(JsonStringifyBlock(sealed)),
                                      ![i].pc = "push"]
       /\ queue' = Requeue(i)
       /\ ret' = NoRet
       /\ UNCHANGED <<chain, height, clock>>

\* An _addBlock that stores the block at the index of its height
\* (`self.chain[newHeight] = block`) where the code pushes it.
AddBlockPushAtHeight(i) ==
    LET c == calls[i]
        block == [c.block EXCEPT !.hash = c.newHash]
        at == c.chainHeight + 2
    IN /\ Idle /\ Running(i) /\ c.pc = "push"
       /\ height' = c.chainHeight + 1
       /\ chain' = IF at <= Len(chain) THEN [chain EXCEPT ![at] = block]
                   ELSE Append(chain, block)
       /\ calls' = [calls EXCEPT ![i].block = block,
                                 ![i].errors = ValidateChain(chain'),
                                 ![i].pc = "checked"]
       /\ queue' = Requeue(i)
       /\ ret' = NoRet
       /\ UNCHANGED clock

\* lines 82-85: the digest is stored, the height is advanced, the block is
\* pushed and validateChain runs (synchronously: its loop never awaits).
AddBlockPush(i) ==
    LET c == calls[i]
        block == [c.block EXCEPT !.hash = c.newHash]
    IN /\ Idle /\ Running(i) /\ c.pc = "push"
       /\ height' = c.chainHeight + 1
       /\ chain' = Append(chain, block)
       /\ calls' = [calls EXCEPT ![i].block = block,
                                 ![i].errors = ValidateChain(chain'),
                                 ![i].pc = "checked"]
       /\ queue' = Requeue(i)
       /\ ret' = NoRet
       /\ UNCHANGED clock

\* lines 86-93: resolve with the block, or reject.
AddBlockSettle(i) ==
    /\ Idle /\ Running(i) /\ calls[i].pc = "checked"
    /\ calls' = [calls EXCEPT ![i].added = IF Len(calls[i].errors) > 0 THEN "rejected"
                                           ELSE "resolved",
                              ![i].pc = "return"]
    /\ queue' = Requeue(i)
    /\ ret' = NoRet
    /\ UNCHANGED <<chain, height, clock>>

\* The caller of _addBlock resumes: submitStar resolves with the block or
\* rejects from its catch (lines 148-152); initializeChain returns or throws.
Return(i) ==
    /\ Idle /\ Running(i) /\ calls[i].pc = "return"
    /\ calls' = [calls EXCEPT ![i] = DoneCall(calls[i])]
    /\ queue' = Tail(queue)
    /\ ret' = NoRet
    /\ UNCHANGED <<chain, height, clock>>

\* Reads: the promise executor runs to its resolve at once.
GetChainHeight ==
    /\ Idle
    /\ ret' = [op |-> "getChainHeight", arg |-> Null, val |-> height]
    /\ UNCHANGED <<chain, height, clock, calls, queue>>

ReadBlockByHeight(h) ==
    /\ Idle
    /\ ret' = [op |-> "getBlockByHeight", arg |-> h, val |-> GetBlockByHeight(chain, h)]
    /\ UNCHANGED <<chain, height, clock, calls, queue>>

ReadBlockByHash(d) ==
    /\ Idle
    /\ ret' = [op |-> "getBlockByHash", arg |-> d, val |-> GetBlockByHash(chain, d)]
    /\ UNCHANGED <<chain, height, clock, calls, queue>>

ReadValidateChain ==
    /\ Idle
    /\ ret' = [op |-> "validateChain", arg |-> Null, val |-> ValidateChain(chain)]
    /\ UNCHANGED <<chain, height, clock, calls, queue>>

\* Its result depends on the chain as it is at the call alone: the slice is
\* taken at once and a pushed block is never written again.
ReadStarsByWalletAddress(a) ==
    /\ Idle
    /\ ret' = [op |-> "getStarsByWalletAddress", arg |-> a,
               val |-> GetStarsByWalletAddress(chain, a)]
    /\ UNCHANGED <<chain, height, clock, calls, queue>>

\* The caller takes the value it was handed.
Handed ==
    /\ ~Idle
    /\ ret' = NoRet
    /\ UNCHANGED <<chain, height, clock, calls, queue>>

\* The wall clock advances.
Tick ==
    /\ Idle
    /\ clock < ClockStart + MaxTicks
    /\ clock' = clock + 1
    /\ ret' = NoRet
    /\ UNCHANGED <<chain, height, calls, queue>>

\* Digests a caller may look up: those in the chain and one that is not.
KnownHashes == {chain[i].hash : i \in 1..Len(chain)} \cup {SHA256(JsonStringifyString(Null))}

Submit == Idle /\ \E a \in Addresses : \E m \in MessagesFor(a) : \E sig \in SignaturesFor(m) :
            \E star \in Stars : SubmitStar(a, m, sig, star)

Microtask ==
    \/ \E i \in 1..Len(calls) : AddBlockReadHeight(i)
    \/ \E i \in 1..Len(calls) : AddBlockReadPrevious(i)
    \/ \E i \in 1..Len(calls) : AddBlockSeal(i)
    \/ \E i \in 1..Len(calls) : AddBlockPush(i)
    \/ \E i \in 1..Len(calls) : AddBlockSettle(i)
    \/ \E i \in 1..Len(calls) : Return(i)

Read ==
    \/ GetChainHeight
    \/ \E h \in -1..(1 + MaxCalls) : ReadBlockByHeight(h)
    \/ \E d \in KnownHashes : ReadBlockByHash(d)
    \/ ReadValidateChain
    \/ \E a \in Addresses : ReadStarsByWalletAddress(a)

\* Calls may be started at any time, also while others are in flight.
Next == InitializeChain \/ Submit \/ Microtask \/ Handed \/ Tick

Spec == Init /\ [][Next]_vars

\* Calls are started one at a time, each after the previous one has settled
\* (the constructor's initializeChain included); reads come at any time.
NextSeq ==
    \/ Settled /\ InitializeChain
    \/ Settled /\ Submit
    \/ Microtask
    \/ Read
    \/ Handed
    \/ Tick

SpecSeq == Init /\ [][NextSeq]_vars

\* Calls may overlap and reads come at any time, also between two turns of
\* the microtask queue.
NextAll == Next \/ Read

SpecAll == Init /\ [][NextAll]_vars

\* The event loop.  A continuation waiting in the microtask queue is run: the
\* queue is drained after every synchronous stretch of the callers, however
\* many calls they start.  A caller that has been handed a value goes on.
Fairness == SF_vars(Microtask) /\ WF_vars(Handed)

SpecFair == Spec /\ Fairness

(* ------------------------------------------------------------------ *)
(* Properties                                                          *)
(* ------------------------------------------------------------------ *)
Blocks == 1..Len(chain)
InSeq(x, seq) == \E k \in 1..Len(seq) : seq[k] = x

\* C1: whatever the interleaving of the appends in flight, the heights of the
\* blocks in chain order are 0, 1, 2, ... and no two blocks have the same
\* previousBlockHash.
C1_AppendsDoNotConflict ==
    /\ \A i \in Blocks : chain[i].height = i - 1
    /\ \A i, j \in Blocks :
         i # j => chain[i].previousBlockHash # chain[j].previousBlockHash

\* C2: once the constructor has returned, the origin block is in the chain and
\* the height is not -1, and no submitStar has read the height before the
\* origin block was pushed.
C2_OriginPresentOnReturn ==
    /\ height # -1
    /\ chain # << >>
    /\ \A i \in 1..Len(calls) :
         (calls[i].op = "submit" /\ calls[i].pc \in {"getPrevious", "seal", "push", "checked"})
            => calls[i].chainHeight > -1

\* C3: the chain never holds more than one block of height 0, and a block of
\* height 0 carries the 'Genesis Block' payload.
C3_SingleOrigin ==
    /\ Cardinality({i \in Blocks : chain[i].height = 0}) <= 1
    /\ \A i \in Blocks : chain[i].height = 0 => chain[i].body = EncodeBody(GenesisData)

\* C4: with the calls run one at a time, every block of height h > 0 has the
\* hash of the block of height h-1 as its previousBlockHash, and the block of
\* height 0 is the only one whose previousBlockHash is null.
C4_LinkedToPredecessor ==
    \A i \in Blocks :
      LET b == chain[i]
      IN /\ b.height > 0 =>
              /\ \E j \in Blocks : chain[j].height = b.height - 1
              /\ \A j \in Blocks :
                   chain[j].height = b.height - 1 => b.previousBlockHash = chain[j].hash
         /\ b.previousBlockHash = Null <=> b.height = 0

\* Two stars have been appended, one after the other.
C4_Witness == Settled /\ Len(chain) >= 3

\* C5: a submitStar whose message was issued more than 300 seconds ago is
\* rejected as expired and appends nothing, valid signature or not; one with
\* at most 300 seconds elapsed and a valid signature is not rejected.
C5_ExpiredIsRejected ==
    [][\A a \in Addresses : \A m \in MessagesFor(a) : \A sig \in SignaturesFor(m) :
         \A star \in Stars :
           LET elapsed == ElapsedSeconds(m, clock)
           IN SubmitStar(a, m, sig, star) =>
                /\ NumGt(elapsed, Window) =>
                     (ret'.op = "submitStar" /\ calls' = calls /\ chain' = chain)
                /\ (~elapsed.nan /\ elapsed.val <= Window /\ Verify(m, a, sig) = "true")
                     => Len(calls') = Len(calls) + 1]_vars

\* C6: a submitStar whose signature verification fails (verify answers false,
\* or throws) rejects: no call goes on past a failed verification, and a
\* rejected submitStar has made no frame and left the chain and the height as
\* they were.
C6_FailedVerificationRejects ==
    [][/\ \A i \in 1..Len(calls') :
            calls'[i].op = "submit" => calls'[i].verdict = "true"
       /\ ret'.op = "submitStar" =>
            (~ret'.val.ok /\ calls' = calls /\ chain' = chain /\ height' = height)]_vars

\* A submitStar has just been rejected on a chain that holds the origin block.
C6_Witness == ret.op = "submitStar" /\ ret.val = Rejected("threw") /\ Len(chain) > 0

\* The entries getStarsByWalletAddress is meant to give: one for each block of
\* height > 0 whose decoded owner is the address, in chain order.
RECURSIVE StarsOwnedBy(_, _)
StarsOwnedBy(ch, address) ==
    IF ch = << >> THEN << >>
    ELSE LET d == GetBData(Head(ch))
         IN (IF d.ok /\ Member(d.val, StrOwner) = address
             THEN <<[owner |-> Member(d.val, StrOwner), star |-> Member(d.val, StrStar)]>>
             ELSE << >>) \o StarsOwnedBy(Tail(ch), address)

\* C7: getStarsByWalletAddress(address) resolves with exactly the entries of the
\* blocks of height > 0 owned by the address, in chain order.
C7_OnlyStarsOfOwner ==
    ret.op = "getStarsByWalletAddress" =>
       ret.val = [ok |-> TRUE, val |-> StarsOwnedBy(chain, ret.arg)]

\* C8: a block sealed by _addBlock, none of whose fields has been changed,
\* validates.
C8_SealedBlockValidates == \A i \in Blocks : BlockValidate(chain[i])

\* C9: validateChain reports a previous-hash error, naming the height, for
\* every block of height > 0 whose previousBlockHash is not the hash of the
\* block before it in the chain.
C9_BrokenLinkReported ==
    \A i \in Blocks :
      LET b == chain[i]
          last == IF i = 1 THEN Null ELSE chain[i - 1].hash
      IN (b.height > 0 /\ b.previousBlockHash # last)
            => InSeq(PreviousHashError(last, b.height), ValidateChain(chain))

\* C10: validateChain reports a not-valid error for every block, the origin
\* included, that Block.validate() finds invalid, and never reports the origin
\* block for its null previousBlockHash.
C10_InvalidBlockReported ==
    /\ \A i \in Blocks :
         ~BlockValidate(chain[i])
            => InSeq(NotValidError(chain[i].height), ValidateChain(chain))
    /\ (chain # << >> /\ chain[1].previousBlockHash = Null)
         => ~InSeq(PreviousHashError(Null, chain[1].height), ValidateChain(chain))

\* The submitStar calls that have resolved, each with the block it appended.
Appended == {i \in 1..Len(calls) : calls[i].op = "submit" /\ calls[i].outcome = "resolved"}

\* C11: with the calls run one after another, once initialization has
\* completed the height is the number of appends that have succeeded since (0
\* before the first), getChainHeight() resolves with that number, and
\* validateChain() is empty, both when _addBlock runs it after its push and
\* when a caller runs it between two appends.
C11_HeightCountsAppends ==
    /\ Settled => height = Cardinality(Appended)
    /\ (Settled /\ ret.op = "getChainHeight") => ret.val = Cardinality(Appended)
    /\ (Settled /\ ret.op = "validateChain") => ret.val = << >>
    /\ \A i \in 1..Len(calls) :
         calls[i].pc \in {"checked", "return"} =>
            (calls[i].errors = << >> /\ (calls[i].pc = "return" => calls[i].added = "resolved"))

\* validateChain() has been called after the second append has resolved.
C11_Witness == Settled /\ ret.op = "validateChain" /\ Cardinality(Appended) = 2 /\ height = 2

\* The calls whose _addBlock has resolved, in the order they were started.
AddResolved == SelectSeq(calls, LAMBDA c : c.added = "resolved")

C13_HeightIsLengthLessOne ==
    /\ height = Len(chain) - 1
    /\ height = -1 <=> chain = << >>

\* C14: for every block appended by a submitStar(address, message, signature,
\* star) that has resolved, getBData() resolves with the value {star, owner:
\* address} that the call encoded into the body.
C14_BodyRoundTrips ==
    \A i \in Appended :
      LET b == calls[i].block
      IN \E a \in Addresses : \E star \in Stars :
            /\ b.body = EncodeBody(StarData(star, a))
            /\ GetBData(b) = [ok |-> TRUE, val |-> StarData(star, a)]

\* The Block objects there are: those in the chain and those held by the calls
\* in flight, constructed and not yet pushed.
LiveBlocks ==
    {chain[i] : i \in Blocks} \cup {calls[i].block : i \in {j \in 1..Len(calls) : calls[j].pc # "done"}}

\* C15: getBData() rejects for every block of height 0 (its body parses, so
\* the executor reaches the reject), and for every block of height > 0 whose
\* body parses it resolves with the value parsed from the decoded body.
C15_OriginHasNoData ==
    \A b \in LiveBlocks :
      LET data == JsonParse(Hex2Ascii(b.body))
      IN /\ b.height = 0 => (data.ok /\ ~GetBData(b).ok)
         /\ (b.height > 0 /\ data.ok) => GetBData(b) = [ok |-> TRUE, val |-> data.val]

\* The chain holds the origin block and a star block, and a submitStar in
\* flight holds a block it has constructed and not yet sealed.
C15_Witness ==
    /\ Len(chain) >= 2 /\ chain[1].height = 0 /\ chain[2].height > 0
    /\ \E i \in 1..Len(calls) :
         calls[i].op = "submit" /\ calls[i].pc = "callAdd" /\ calls[i].block.height = 0

\* C16: every block of the chain other than the origin block (the block of
\* height 0) is the block of a submitStar call for which bitcoinMessage.verify
\* answered true, and the owner decoded from its body is the address that
\* call was made with.
C16_OnlyVerifiedOwners ==
    \A i \in Blocks :
      chain[i].height # 0 =>
         /\ \E k \in 1..Len(calls) :
              calls[k].op = "submit" /\ calls[k].verdict = "true" /\ calls[k].block = chain[i]
         /\ \E a \in Addresses : \E star \in Stars :
              /\ chain[i].body = EncodeBody(StarData(star, a))
              /\ Member(JsonParse(Hex2Ascii(chain[i].body)).val, StrOwner) = a

\* The message has no second ':'-separated field that parseInt can read.
NoIssueTime(m) == ParseInt(At(Split(m, 58), 1)).nan

\* C17: a submitStar whose message has no parseable issue time is rejected at
\* once, whatever the signature: it starts no append (no block is made for it)
\* and leaves the chain as it was.
C17_MalformedChallengeRejects ==
    [][\A a \in Addresses : \A m \in MessagesFor(a) : \A sig \in SignaturesFor(m) :
         \A star \in Stars :
           (NoIssueTime(m) /\ SubmitStar(a, m, sig, star)) =>
              /\ ret'.op = "submitStar"
              /\ calls' = calls
              /\ chain' = chain]_vars

\* C18: whatever calls are started and however they interleave, reads
\* included, every step leaves the blocks already in the chain where they
\* are, with every field as it was, can only add blocks after them, and never
\* lowers the height.
C18_ChainOnlyGrows ==
    [][/\ Len(chain') >= Len(chain)
       /\ SubSeq(chain', 1, Len(chain)) = chain
       /\ height' >= height]_vars

\* A caller has read the chain after two blocks were pushed, while an append
\* that has sealed its block is still in flight.
C18_Witness ==
    /\ Len(chain) >= 2
    /\ ret.op \in {"getBlockByHeight", "getBlockByHash", "validateChain", "getStarsByWalletAddress"}
    /\ \E i \in 1..Len(calls) : calls[i].pc = "push"

\* C19: in every state, appends in flight or not, getBlockByHeight(h) resolves
\* with a block of the chain whose height is h when 0 <= h <= height and with
\* null otherwise, and getBlockByHash(d) resolves with a block of the chain
\* whose hash is d when the chain holds one and with null otherwise.
C19_LookupsFindTheirBlock ==
    /\ ret.op = "getBlockByHeight" =>
         IF 0 <= ret.arg /\ ret.arg <= height
         THEN ret.val.found /\ ret.val.block.height = ret.arg /\ InSeq(ret.val.block, chain)
         ELSE ~ret.val.found
    /\ ret.op = "getBlockByHash" =>
         IF \E i \in Blocks : chain[i].hash = ret.arg
         THEN ret.val.found /\ ret.val.block.hash = ret.arg /\ InSeq(ret.val.block, chain)
         ELSE ~ret.val.found

\* getBlockByHeight(1) has resolved with a block.
C19_Witness == ret.op = "getBlockByHeight" /\ ret.arg = 1 /\ ret.val.found

\* C20: every submitStar call that has gone on to _addBlock settles in the end,
\* however it interleaves with the other calls in flight; a call that has
\* settled stays as it settled (it settles once); and when it resolves, the
\* block it resolves with is in the chain.  (A submitStar that does not go on
\* to _addBlock has rejected in its first synchronous run.)
C20_SubmitStarSettles ==
    /\ \A i \in 1..(1 + MaxCalls) :
         (i <= Len(calls) /\ calls[i].op = "submit")
            ~> (i <= Len(calls) /\ calls[i].pc = "done"
                  /\ calls[i].outcome \in {"resolved", "rejected"})
    /\ [][\A i \in 1..Len(calls) :
            /\ calls[i].pc = "done" => calls'[i] = calls[i]
            /\ (calls[i].pc # "done" /\ calls'[i].pc = "done"
                  /\ calls'[i].outcome = "resolved") => InSeq(calls'[i].block, chain')]_vars

\* A submitStar has resolved with a block of the chain while another call,
\* started before it settled, is still in flight.
C20_Witness ==
    \E i, j \in 1..Len(calls) :
       /\ calls[i].op = "submit" /\ calls[i].pc = "done" /\ calls[i].outcome = "resolved"
       /\ InSeq(calls[i].block, chain)
       /\ j > i /\ calls[j].pc \notin {"callAdd", "done"}

====
